---- MODULE Spec2Model ----
(***************************************************************************)
(* AI-SEO-Blog-Generator: the agent execution envelope                     *)
(* (agents/base_agent.py, BaseAgent.execute and _execute_with_retry), the  *)
(* mock-agent orchestrator (pipeline/orchestrator.py) and the production   *)
(* orchestrator (pipeline/orchestratorV2.py), as state machines.           *)
(*                                                                         *)
(* Strings built with f-strings are modelled as sequences of string        *)
(* tokens, one token per literal part and per interpolated value, so that  *)
(* "the message contains the retry count" is a statement about a token.    *)
(***************************************************************************)
EXTENDS Integers, Sequences, FiniteSets, TLC

\* ------------------------------------------------------------------ bounds
\* largest max_retries an AgentConfig is given in the model
MaxRetries == 3
\* longest time (seconds) a returning or raising process attempt takes
MaxProcessSecs == 1
\* number of execute calls made on one agent
MaxExecCalls == 1

\* ------------------------------------------------------ program constants
\* AgentConfig.timeout_seconds default
timeout_seconds == 120

VARIABLES
  \* ---- BaseAgent (agents/base_agent.py)
  max_retries,        \* self.config.max_retries
  progress,           \* self._progress
  status,             \* self._status
  progress_callback,  \* self._progress_callback is set
  event_callback,     \* self._event_callback is set
  a_pc,               \* position of the execute coroutine
  attempt,            \* loop variable of _execute_with_retry
  last_error,         \* local last_error of _execute_with_retry
  exc,                \* str(e) of the exception caught by execute
  result,             \* what _execute_with_retry returned to execute
  processing_time,    \* local processing_time of execute
  start_time,         \* local start_time of execute
  response,           \* the value execute returned
  now,                \* wall clock, seconds
  \* ---- observation of one execute call
  calls,              \* invocations of process in this call
  trace,              \* attempts and sleeps of this call, in order
  events,             \* event types handed to the event callback in this call
  execCalls,          \* execute calls started so far
  callbacks_raise,    \* the registered callbacks may raise when called
  \* ---- PipelineOrchestrator (pipeline/orchestrator.py)
  o_status,           \* self.status
  results,            \* self.results: agent name -> the keys of its result
  errors,             \* self.errors
  pipeline_output,    \* local pipeline_output: key -> who wrote it last
  o_pc,               \* position of the run_pipeline coroutine
  agent_index,        \* loop position i + 1 in self.agents_config
  bus,                \* events published on the event bus in this run
  returned,           \* the mapping run_pipeline returned
  processing_summary, \* pipeline_output["processing_summary"]
  \* ---- observation of one run_pipeline call
  runs,               \* run_pipeline calls started so far
  executed,           \* agents whose execute was called in this run, in order
  succeeded,          \* agents whose execute returned in this run
  failed,             \* agents that raised or timed out in this run
  callback_raised,    \* a subscriber's callback raised in this run
  \* ---- PipelineOrchestrator (pipeline/orchestratorV2.py)
  skip_quality_check, \* self.config.skip_quality_check
  skip_publishing,    \* self.config.skip_publishing
  pipeline_data,      \* self.pipeline_data, its keys
  agent_results,      \* self.agent_results, its keys
  v2_errors,          \* self.errors
  v2_pc,              \* position of the run_pipeline coroutine
  v2_index,           \* position in agent_names
  v2_returned,        \* the mapping run_pipeline returned
  \* ---- observation of one run_pipeline call of orchestratorV2
  v2_executed,        \* agents whose execute was called, in order
  v2_outcome,         \* agent -> how its execute ended
  \* ---- BaseAgent._parse_reasoning_response
  raw_response,       \* the argument of the call, as its lines
  parsed,             \* what the call returned, or that it raised
  \* ---- KeywordScorer (utils/keyword_scorer.py): one call and its result
  sc_call,            \* the method that was called, "none" before the call
  volume,             \* argument of normalize_search_volume
  difficulty,         \* argument of normalize_keyword_difficulty
  volume_score,       \* what normalize_search_volume returned
  difficulty_score,   \* what normalize_keyword_difficulty returned
  metrics,            \* argument of calculate_keyword_score
  keyword_score,      \* the KeywordScore it returned
  score_a, score_b,   \* arguments of two calls of _calculate_grade
  grade_a, grade_b,   \* the grades they returned
  keywords_metrics,   \* argument of score_keyword_list
  scores,             \* the list it returned
  keyword_scores,     \* arguments of get_top_keywords
  count,
  min_grade,
  top                 \* the list it returned

agentVars == <<max_retries, progress, status, progress_callback, event_callback,
               a_pc, attempt, last_error, exc, result, processing_time,
               start_time, response, now, calls, trace, events, execCalls,
               callbacks_raise>>

orchVars == <<o_status, results, errors, pipeline_output, o_pc, agent_index,
              bus, returned, processing_summary, runs, executed, succeeded,
              failed, callback_raised>>

v2Vars == <<skip_quality_check, skip_publishing, pipeline_data, agent_results,
            v2_errors, v2_pc, v2_index, v2_returned, v2_executed, v2_outcome>>

parseVars == <<raw_response, parsed>>

scorerVars ==
  <<sc_call, volume, difficulty, volume_score, difficulty_score,
    metrics, keyword_score, score_a, score_b, grade_a, grade_b,
    keywords_metrics, scores, keyword_scores, count, min_grade, top>>

vars == <<agentVars, orchVars, v2Vars, parseVars, scorerVars>>

\* ------------------------------------------------------------ AgentResponse
AgentName == "test_agent"

\* a response nobody produced yet
NoResponse ==
  [success |-> FALSE, data |-> {}, reasoning |-> <<>>, errors |-> <<>>,
   processing_time |-> -1, metadata |-> {}, produced |-> FALSE]

\* exceptions a process attempt may raise (str(e))
ProcessErrors == {"quota exceeded", "network error"}

\* TestAgent.process, its return value
SuccessResponse ==
  [success |-> TRUE,
   data |-> {"analysis", "tool_result", "input_summary"},
   reasoning |-> <<"step">>,
   errors |-> <<>>,
   processing_time |-> 0,
   metadata |-> {"confidence", "agent_name"},
   produced |-> TRUE]

\* the response an agent's process returns from its own except block
ProcessFailureResponse(e) ==
  [success |-> FALSE,
   data |-> {},
   reasoning |-> <<>>,
   errors |-> << <<e>> >>,
   processing_time |-> 0,
   metadata |-> {"agent_name", "failure_reason"},
   produced |-> TRUE]

\* every response a process of the repository returns
ProcessResponses ==
  {SuccessResponse} \cup {ProcessFailureResponse(e) : e \in ProcessErrors}

\* ------------------------------------------------------------- messages
NoError == <<"None">>

\* last_error after asyncio.TimeoutError
TimeoutMessage ==
  <<"Task timed out after", ToString(timeout_seconds), "seconds">>

\* last_error after any other exception
FailedMessage(e) == <<"Task failed:", e>>

\* the exception _execute_with_retry raises when the loop ends
ExhaustedMessage(retries, last) ==
  <<"Task failed after", ToString(retries), "attempts. Last error:">> \o last

\* error_msg of execute's except block
AgentFailedMessage(e) == <<"Agent", AgentName, "failed:">> \o e

\* the except block passing its unused local list: errors=errors
SynthesizedFailureUnusedErrors(e, reasoning_chain, elapsed) ==
  [success |-> FALSE,
   data |-> {},
   reasoning |-> reasoning_chain,
   errors |-> <<>>,
   processing_time |-> elapsed,
   metadata |-> {"agent_name", "failure_reason"},
   produced |-> TRUE]

\* the AgentResponse execute builds in its except block
SynthesizedFailure(e, reasoning_chain, elapsed) ==
  [success |-> FALSE,
   data |-> {},
   reasoning |-> reasoning_chain,
   errors |-> <<AgentFailedMessage(e)>>,
   processing_time |-> elapsed,
   metadata |-> {"agent_name", "failure_reason"},
   produced |-> TRUE]

\* ------------------------------------------------------------- helpers
RECURSIVE Pow2(_)
Pow2(n) == IF n <= 0 THEN 1 ELSE 2 * Pow2(n - 1)

\* the loop bound off by one: range(self.config.max_retries + 1)
MoreAttemptsOffByOne == attempt <= max_retries

\* for attempt in range(self.config.max_retries)
MoreAttempts == attempt < max_retries

\* if attempt < self.config.max_retries - 1
NotLastAttempt == attempt < max_retries - 1

\* asyncio.sleep(2 ** attempt)
BackoffSeconds(k) == Pow2(k)

\* an _emit_event that never hands agent_failed to the callback
EmitEventDropsFailure(log, event_type) ==
  IF event_callback /\ event_type # "agent_failed"
    THEN Append(log, event_type)
    ELSE log

\* _emit_event: the callback is called only when one is set
EmitEvent(log, event_type) ==
  IF event_callback THEN Append(log, event_type) ELSE log

AttemptEntry(k, outcome) == [op |-> "attempt", n |-> k, outcome |-> outcome]
SleepEntry(secs) == [op |-> "sleep", n |-> secs, outcome |-> "none"]

\* progress values process itself pushes (TestAgent.process)
ProcessProgress == {20, 80}

\* a handler that takes timeouts only: except asyncio.TimeoutError
ExecuteCatchesOnlyTimeout(kind) == kind \in {"TimeoutError"}

\* execute's handler is "except Exception": it takes every Exception raised
\* inside the try block
ExecuteCatches(kind) == kind \in {"Exception"}

\* where an exception raised inside the try block of execute goes
Lands(kind) == IF ExecuteCatches(kind) THEN "except" ELSE "escaped"

\* the exception of a callback that raised
CallbackException == <<"callback raised">>

\* where a step of execute may stop because a callback raised: at one of
\* its _update_progress calls when a progress callback is registered, at
\* one of its _emit_event calls when an event callback is registered, or
\* nowhere.  Neither call is wrapped in a try of its own.
RaisePoints(progress_points, event_points) ==
  {"none"}
    \cup (IF callbacks_raise /\ progress_callback THEN progress_points ELSE {})
    \cup (IF callbacks_raise /\ event_callback THEN event_points ELSE {})

\* --------------------------------------------------------------- Init
InitExecute ==
  /\ max_retries \in 1..MaxRetries
  /\ progress = 0
  /\ status = "idle"
  /\ progress_callback = FALSE
  /\ event_callback = FALSE
  /\ a_pc = "idle"
  /\ attempt = 0
  /\ last_error = NoError
  /\ exc = NoError
  /\ result = NoResponse
  /\ processing_time = 0
  /\ start_time = 0
  /\ response = NoResponse
  /\ now = 0
  /\ calls = 0
  /\ trace = <<>>
  /\ events = <<>>
  /\ execCalls = 0

\* callbacks that return
InitAgent == InitExecute /\ callbacks_raise = FALSE

\* callbacks that may raise
InitAgentRaising == InitExecute /\ callbacks_raise = TRUE

\* ------------------------------------------------------ BaseAgent actions
set_progress_callback ==
  /\ a_pc = "idle"
  /\ ~progress_callback
  /\ progress_callback' = TRUE
  /\ UNCHANGED <<max_retries, progress, status, event_callback, a_pc, attempt,
                 last_error, exc, result, processing_time, start_time,
                 response, now, calls, trace, events, execCalls,
                 callbacks_raise>>

set_event_callback ==
  /\ a_pc = "idle"
  /\ ~event_callback
  /\ event_callback' = TRUE
  /\ UNCHANGED <<max_retries, progress, status, progress_callback, a_pc,
                 attempt, last_error, exc, result, processing_time, start_time,
                 response, now, calls, trace, events, execCalls,
                 callbacks_raise>>

\* execute, up to the first await: start_time, progress 0, agent_started,
\* progress 10, entry of _execute_with_retry
ExecuteBegin ==
  /\ a_pc \in {"idle", "done"}
  /\ execCalls < MaxExecCalls
  /\ execCalls' = execCalls + 1
  /\ start_time' = now
  /\ \E stop \in RaisePoints({"progress_0", "progress_10"}, {"agent_started"}) :
       /\ events' = IF stop = "progress_0"
                       THEN <<>>
                       ELSE EmitEvent(<<>>, "agent_started")
       /\ progress' = IF stop \in {"progress_0", "agent_started"} THEN 0 ELSE 10
       /\ status' = IF stop \in {"progress_0", "agent_started"}
                       THEN "starting"
                       ELSE "processing"
       /\ exc' = IF stop = "none" THEN NoError ELSE CallbackException
       /\ a_pc' = IF stop = "none" THEN "retry" ELSE Lands("Exception")
  /\ last_error' = NoError
  /\ attempt' = 0
  /\ calls' = 0
  /\ trace' = <<>>
  /\ result' = NoResponse
  /\ response' = NoResponse
  /\ processing_time' = 0
  /\ UNCHANGED <<max_retries, progress_callback, event_callback, now,
                 callbacks_raise>>

\* one attempt: process returns within the timeout
AttemptReturns ==
  /\ a_pc = "retry"
  /\ MoreAttempts
  /\ \E r \in ProcessResponses, d \in 1..MaxProcessSecs, p \in ProcessProgress :
       /\ result' = r
       /\ now' = now + d
       /\ progress' = p
  /\ status' = "processing"
  /\ calls' = calls + 1
  /\ trace' = Append(trace, AttemptEntry(attempt, "returned"))
  /\ a_pc' = "returned"
  /\ UNCHANGED <<max_retries, progress_callback, event_callback, attempt,
                 last_error, exc, processing_time, start_time, response,
                 events, execCalls,
                 callbacks_raise>>

\* one attempt: asyncio.wait_for raises asyncio.TimeoutError
AttemptTimesOut ==
  /\ a_pc = "retry"
  /\ MoreAttempts
  /\ \E p \in ProcessProgress : progress' = p
  /\ status' = "processing"
  /\ now' = now + timeout_seconds
  /\ calls' = calls + 1
  /\ trace' = Append(trace, AttemptEntry(attempt, "timeout"))
  /\ last_error' = TimeoutMessage
  /\ attempt' = attempt + 1
  /\ UNCHANGED <<max_retries, progress_callback, event_callback, a_pc, exc,
                 result, processing_time, start_time, response, events,
                 execCalls,
                 callbacks_raise>>

\* one attempt: process raises another exception
AttemptRaises ==
  /\ a_pc = "retry"
  /\ MoreAttempts
  /\ \E e \in ProcessErrors, d \in 1..MaxProcessSecs, p \in ProcessProgress :
       /\ last_error' = FailedMessage(e)
       /\ now' = now + d
       /\ progress' = p
  /\ status' = "processing"
  /\ calls' = calls + 1
  /\ trace' = Append(trace, AttemptEntry(attempt, "raised"))
  /\ IF NotLastAttempt
       THEN a_pc' = "backoff" /\ attempt' = attempt
       ELSE a_pc' = "retry" /\ attempt' = attempt + 1
  /\ UNCHANGED <<max_retries, progress_callback, event_callback, exc, result,
                 processing_time, start_time, response, events, execCalls,
                 callbacks_raise>>

\* await asyncio.sleep(2 ** attempt), then the next iteration
BackoffSleep ==
  /\ a_pc = "backoff"
  /\ now' = now + BackoffSeconds(attempt)
  /\ trace' = Append(trace, SleepEntry(BackoffSeconds(attempt)))
  /\ attempt' = attempt + 1
  /\ a_pc' = "retry"
  /\ UNCHANGED <<max_retries, progress, status, progress_callback,
                 event_callback, last_error, exc, result, processing_time,
                 start_time, response, calls, events, execCalls,
                 callbacks_raise>>

\* the loop is over: raise Exception("Task failed after ... attempts ..."),
\* which lands in the except clause of execute
RetryExhausted ==
  /\ a_pc = "retry"
  /\ ~MoreAttempts
  /\ exc' = ExhaustedMessage(max_retries, last_error)
  /\ a_pc' = Lands("Exception")
  /\ UNCHANGED <<max_retries, progress, status, progress_callback,
                 event_callback, attempt, last_error, result, processing_time,
                 start_time, response, now, calls, trace, events, execCalls,
                 callbacks_raise>>

\* the value execute returns after _execute_with_retry returned
ReturnedResponse(r, elapsed) == r

\* execute after _execute_with_retry returned: progress 90, processing_time,
\* agent_completed, progress 100, return result
ExecuteComplete ==
  /\ a_pc = "returned"
  /\ \E stop \in RaisePoints({"progress_90", "progress_100"},
                              {"agent_completed"}) :
       /\ processing_time' = IF stop = "progress_90"
                                THEN processing_time
                                ELSE now - start_time
       /\ events' = IF stop = "progress_90"
                       THEN events
                       ELSE EmitEvent(events, "agent_completed")
       /\ progress' = IF stop \in {"progress_90", "agent_completed"}
                         THEN 90
                         ELSE 100
       /\ status' = IF stop \in {"progress_90", "agent_completed"}
                       THEN "finalizing"
                       ELSE "completed"
       /\ response' = IF stop = "none"
                         THEN ReturnedResponse(result, now - start_time)
                         ELSE response
       /\ exc' = IF stop = "none" THEN exc ELSE CallbackException
       /\ a_pc' = IF stop = "none" THEN "done" ELSE Lands("Exception")
  /\ UNCHANGED <<max_retries, progress_callback, event_callback, attempt,
                 last_error, result, start_time, now, calls, trace,
                 execCalls, callbacks_raise>>

\* execute's except block: processing_time, agent_failed, progress 100,
\* return the synthesized AgentResponse.  The block is not inside a try: a
\* callback that raises here ends the call with that exception.
ExecuteFail ==
  /\ a_pc = "except"
  /\ processing_time' = now - start_time
  /\ events' = EmitEvent(events, "agent_failed")
  /\ \E stop \in RaisePoints({"progress_100"}, {"agent_failed"}) :
       /\ progress' = IF stop = "agent_failed" THEN progress ELSE 100
       /\ status' = IF stop = "agent_failed" THEN status ELSE "failed"
       /\ response' = IF stop = "none"
                         THEN SynthesizedFailure(exc, <<>>, now - start_time)
                         ELSE response
       /\ a_pc' = IF stop = "none" THEN "done" ELSE "escaped"
  /\ UNCHANGED <<max_retries, progress_callback, event_callback, attempt,
                 last_error, exc, result, start_time, now, calls, trace,
                 execCalls,
                 callbacks_raise>>

NextAgent ==
  \/ set_progress_callback
  \/ set_event_callback
  \/ ExecuteBegin
  \/ AttemptReturns
  \/ AttemptTimesOut
  \/ AttemptRaises
  \/ BackoffSleep
  \/ RetryExhausted
  \/ ExecuteComplete
  \/ ExecuteFail

\* a started execute call goes on: the event loop resumes the coroutine, every
\* attempt is bounded by wait_for's timeout and every sleep ends
InCallStep ==
  \/ AttemptReturns
  \/ AttemptTimesOut
  \/ AttemptRaises
  \/ BackoffSleep
  \/ RetryExhausted
  \/ ExecuteComplete
  \/ ExecuteFail


\* ============================= BaseAgent._parse_reasoning_response
\* longest text handed to the parser, in lines
MaxLines == 4

\* 'confidence': min(confidence, 100.0)
ConfidenceCeiling == 100
\* the "80" and 80.0 used when the text gives no confidence
DefaultConfidence == 80
\* 'confidence': 70.0 of the answer without REASONING:
DirectConfidence == 70
\* 'confidence': 60.0 of the except clause
FailedConfidence == 60

Markers == {"REASONING:", "RESPONSE:", "CONFIDENCE:"}

\* the lines a text is made of: a marker, or a line without a marker
Lines == Markers \cup {"text", "1. step", "- step", "95", "150", "0.5"}

\* the texts: up to MaxLines lines, joined by "\n"
Texts == UNION {[1..n -> Lines] : n \in 0..MaxLines}

\* str.split(marker): the pieces between the occurrences of the marker
RECURSIVE Split(_, _)
Split(text, marker) ==
  IF \A i \in 1..Len(text) : text[i] # marker
    THEN <<text>>
    ELSE LET first == CHOOSE i \in 1..Len(text) :
                        /\ text[i] = marker
                        /\ \A j \in 1..(i - 1) : text[j] # marker
         IN <<SubSeq(text, 1, first - 1)>>
              \o Split(SubSeq(text, first + 1, Len(text)), marker)

\* filter(str.isdigit, line): the digits of one line
DigitsOf(line) ==
  CASE line = "95" -> <<9, 5>>
    [] line = "150" -> <<1, 5, 0>>
    [] line = "0.5" -> <<0, 5>>
    [] line = "1. step" -> <<1>>
    [] line = "80" -> <<8, 0>>
    [] OTHER -> <<>>

\* filter(str.isdigit, confidence_part)
RECURSIVE Digits(_)
Digits(part) ==
  IF part = <<>> THEN <<>> ELSE DigitsOf(Head(part)) \o Digits(Tail(part))

\* min(float(digits), 100.0): every value from the ceiling on is cut to the
\* ceiling, so the value is carried no further than the ceiling
RECURSIVE CutValue(_, _)
CutValue(digits, sofar) ==
  IF digits = <<>> THEN sofar
  ELSE LET v == sofar * 10 + Head(digits)
       IN CutValue(Tail(digits),
                   IF v > ConfidenceCeiling THEN ConfidenceCeiling ELSE v)

\* line.startswith(tuple('123456789')) or line.startswith('-')
IsStep(line) == line \in {"1. step", "- step", "95", "150"}

\* the lines of reasoning_part that are kept as reasoning steps
RECURSIVE StepsOf(_)
StepsOf(part) ==
  IF part = <<>> THEN <<>>
  ELSE (IF IsStep(Head(part)) THEN <<Head(part)>> ELSE <<>>)
         \o StepsOf(Tail(part))

NotParsed ==
  [called |-> FALSE, raised |-> FALSE, response |-> <<>>,
   reasoning_steps |-> <<>>, confidence |-> 0]

Answer(response_part, steps, confidence) ==
  [called |-> TRUE, raised |-> FALSE, response |-> response_part,
   reasoning_steps |-> steps, confidence |-> confidence]

\* a parser without its try statement: the exception leaves the call
ParsingFailedRaises(raw) ==
  [called |-> TRUE, raised |-> TRUE, response |-> <<>>,
   reasoning_steps |-> <<>>, confidence |-> 0]

\* except Exception: the raw text, one placeholder step, 60.0
ParsingFailed(raw) ==
  Answer(raw, <<"Parsing failed, using raw response">>, FailedConfidence)

\* the else branch: the raw text, one placeholder step, 70.0
DirectResponse(raw) ==
  Answer(raw, <<"Direct response without structured reasoning">>,
         DirectConfidence)

\* _parse_reasoning_response(raw_response)
ParseReasoning(raw) ==
  LET parts == Split(raw, "REASONING:") IN
  IF Len(parts) > 1
    THEN LET byResponse == Split(parts[2], "RESPONSE:")
             byConfidence == Split(parts[2], "CONFIDENCE:")
         IN IF Len(byResponse) < 2
              THEN ParsingFailed(raw)      \* IndexError of [1]
              ELSE LET reasoning_part == byResponse[1]
                       response_part == Split(byResponse[2], "CONFIDENCE:")[1]
                       confidence_part ==
                         IF Len(byConfidence) > 1 THEN byConfidence[2]
                         ELSE <<"80">>
                   IN IF confidence_part = <<>>
                        THEN Answer(response_part, StepsOf(reasoning_part),
                                    DefaultConfidence)
                      ELSE IF Digits(confidence_part) = <<>>
                        THEN ParsingFailed(raw)   \* ValueError of float('')
                      ELSE Answer(response_part, StepsOf(reasoning_part),
                                  CutValue(Digits(confidence_part), 0))
    ELSE DirectResponse(raw)

\* one call of the parser with some text
ParseCall ==
  /\ ~parsed.called
  /\ \E text \in Texts :
       /\ raw_response' = text
       /\ parsed' = ParseReasoning(text)

InitParse ==
  /\ raw_response = <<>>
  /\ parsed = NotParsed

\* ================================================ utils/keyword_scorer.py
\* largest power of ten, as its exponent, among the search volumes
MaxDecade == 6

\* self.benchmarks['high_volume']
high_volume == 100000

RECURSIVE Pow10(_)
Pow10(k) == IF k <= 0 THEN 1 ELSE 10 * Pow10(k - 1)

\* the whole part of math.log10(v), v >= 1
RECURSIVE FloorLog10(_)
FloorLog10(v) == IF v < 10 THEN 0 ELSE 1 + FloorLog10(v \div 10)

Min(a, b) == IF a <= b THEN a ELSE b
Max(a, b) == IF a >= b THEN a ELSE b

\* search volumes: negative, zero, the powers of ten and a value between
\* each two of them
Volumes ==
  {-1, 0} \cup {Pow10(k) : k \in 0..MaxDecade}
          \cup {5 * Pow10(k) : k \in 0..MaxDecade}

\* keyword difficulties, in and out of 0..100
Difficulties == {10 * d : d \in -1..11}

\* normalize_search_volume(volume): the values the result may have.  The
\* logarithm of a power of ten is its exponent; the logarithm of a volume
\* between two powers of ten lies strictly between their exponents, and
\* the result is any whole score strictly between the two scores.
normalize_search_volume(v) ==
  IF v <= 0 THEN {0}
  ELSE LET k == FloorLog10(Max(v, 1))
           h == FloorLog10(high_volume)
       IN IF Max(v, 1) = Pow10(k)
            THEN {Min((k * 100) \div h, 100)}
            ELSE {Min(n, 100) :
                    n \in ((k * 100) \div h + 1)..(((k + 1) * 100) \div h - 1)}

\* normalize_keyword_difficulty without the two clamping branches
normalize_keyword_difficulty_unclamped(d) == 100 - d

\* normalize_keyword_difficulty(difficulty)
normalize_keyword_difficulty(d) ==
  IF d < 0 THEN 100 - 0
  ELSE IF d > 100 THEN 100 - 100
  ELSE 100 - d

\* longest series of trend values
MaxSeries == 2

\* self.benchmarks['high_cpc'], ['medium_cpc'] and ['low_cpc'], in cents
high_cpc == 1000
medium_cpc == 200
low_cpc == 50

\* costs per click in cents: negative, zero, the three benchmarks, a value
\* inside each interval and one above the highest benchmark
Cpcs == {-100, 0, 25, low_cpc, 125, medium_cpc, 600, high_cpc, 2500}

\* normalize_cpc(cpc), cpc in cents; the divisions are exact on Cpcs
normalize_cpc(cpc) ==
  IF cpc <= 0 THEN 0
  ELSE IF cpc >= high_cpc THEN 100
  ELSE IF cpc >= medium_cpc
    THEN 60 + ((cpc - medium_cpc) * 40) \div (high_cpc - medium_cpc)
  ELSE IF cpc >= low_cpc
    THEN 20 + ((cpc - low_cpc) * 40) \div (medium_cpc - low_cpc)
  ELSE (cpc * 20) \div low_cpc

\* trend numbers below, inside and above 0..100; multiples of 60, so that
\* the mean of a short series is a whole number
TrendSamples == {-60, 60, 600}

RECURSIVE Series(_)
Series(n) ==
  IF n = 0 THEN {<<>>}
  ELSE Series(n - 1)
         \cup {Append(q, x) : q \in {r \in Series(n - 1) : Len(r) = n - 1},
                              x \in TrendSamples}

\* the shapes of metrics.trend_score: a number, a mapping with 'score', a
\* mapping with 'values', and anything else (a mapping without either key,
\* a string, None)
TrendInputs ==
  [shape : {"number", "score"}, score : TrendSamples, values : {<<>>}]
    \cup [shape : {"values"}, score : {0}, values : Series(MaxSeries)]
    \cup [shape : {"other"}, score : {0}, values : {<<>>}]

RECURSIVE SumSeq(_)
SumSeq(q) == IF q = <<>> THEN 0 ELSE Head(q) + SumSeq(Tail(q))

\* values[-12:]
Last12(values) ==
  IF Len(values) > 12
    THEN SubSeq(values, Len(values) - 11, Len(values))
    ELSE values

\* statistics.mean(values)
Mean(values) == SumSeq(values) \div Len(values)

\* calculate_trend_score(trend_data)
calculate_trend_score(trend_data) ==
  IF trend_data.shape = "number"
    THEN Max(0, Min(100, trend_data.score))
  ELSE IF trend_data.shape = "score"
    THEN Max(0, Min(100, trend_data.score))
  ELSE IF trend_data.shape = "values"
    THEN IF Last12(trend_data.values) # <<>>
           THEN Mean(Last12(trend_data.values))
           ELSE 50
  ELSE 50

\* WEIGHTS, in tenths
WEIGHTS ==
  [search_volume |-> 4, keyword_difficulty |-> 3, cpc |-> 2, trend |-> 1]

\* GRADE_THRESHOLDS, in the order of the dict
GRADE_THRESHOLDS ==
  << <<"A+", 90>>, <<"A", 80>>, <<"B+", 70>>, <<"B", 60>>,
     <<"C+", 50>>, <<"C", 40>>, <<"D", 0>> >>

\* a threshold of whole points in the unit of total_score, a tenth of a point
Points(n) == n * (WEIGHTS.search_volume + WEIGHTS.keyword_difficulty
                    + WEIGHTS.cpc + WEIGHTS.trend)

\* the loop of _calculate_grade returning the last grade reached
RECURSIVE GradeFromLast(_, _)
GradeFromLast(score, i) ==
  IF i > Len(GRADE_THRESHOLDS) THEN "D"
  ELSE IF score >= Points(GRADE_THRESHOLDS[i][2])
            /\ GradeFromLast(score, i + 1) = "D"
    THEN GRADE_THRESHOLDS[i][1]
  ELSE GradeFromLast(score, i + 1)

\* the loop of _calculate_grade from entry i of the table on
RECURSIVE GradeFrom(_, _)
GradeFrom(score, i) ==
  IF i > Len(GRADE_THRESHOLDS) THEN "D"
  ELSE IF score >= Points(GRADE_THRESHOLDS[i][2]) THEN GRADE_THRESHOLDS[i][1]
  ELSE GradeFrom(score, i + 1)

\* _calculate_grade(score), score in tenths of a point
calculate_grade(score) == GradeFrom(score, 1)

\* the KeywordMetrics of calculate_keyword_score
Metrics ==
  [keyword : {"k"}, search_volume : Volumes, keyword_difficulty : Difficulties,
   cpc : Cpcs, trend_score : TrendInputs]

\* calculate_keyword_score(metrics) for one value of the volume score;
\* total_score is in tenths of a point
KeywordScore(m, vs) ==
  LET component_scores ==
        [search_volume |-> vs,
         keyword_difficulty |-> normalize_keyword_difficulty(m.keyword_difficulty),
         cpc |-> normalize_cpc(m.cpc),
         trend |-> calculate_trend_score(m.trend_score)]
      total_score ==
        component_scores.search_volume * WEIGHTS.search_volume
          + component_scores.keyword_difficulty * WEIGHTS.keyword_difficulty
          + component_scores.cpc * WEIGHTS.cpc
          + component_scores.trend * WEIGHTS.trend
  IN [keyword |-> m.keyword,
      total_score |-> total_score,
      component_scores |-> component_scores,
      grade |-> calculate_grade(total_score)]

\* the results calculate_keyword_score(metrics) may have
calculate_keyword_score(m) ==
  {KeywordScore(m, vs) : vs \in normalize_search_volume(m.search_volume)}

NoMetrics ==
  [keyword |-> "none", search_volume |-> 0, keyword_difficulty |-> 0,
   cpc |-> 0, trend_score |-> [shape |-> "other", score |-> 0, values |-> <<>>]]

NoScore ==
  [keyword |-> "none", total_score |-> 0,
   component_scores |->
     [search_volume |-> 0, keyword_difficulty |-> 0, cpc |-> 0, trend |-> 0],
   grade |-> "D"]

\* one call of calculate_keyword_score
ScoreCall ==
  /\ sc_call = "none"
  /\ sc_call' = "score"
  /\ \E m \in Metrics :
       /\ metrics' = m
       /\ keyword_score' \in calculate_keyword_score(m)
  /\ UNCHANGED <<volume, difficulty, volume_score, difficulty_score,
                 score_a, score_b, grade_a, grade_b,
                 keywords_metrics, scores, keyword_scores, count, min_grade,
                 top>>

\* how far below 0 and above 100 the graded scores go, in points
ScoreMargin == 5

\* graded scores, in tenths: every whole point, and the tenth just below
\* each threshold
GradeInputs ==
  {Points(p) : p \in (0 - ScoreMargin)..(100 + ScoreMargin)}
    \cup {Points(GRADE_THRESHOLDS[i][2]) - 1 : i \in DOMAIN GRADE_THRESHOLDS}

\* two calls of _calculate_grade
GradeCall ==
  /\ sc_call = "none"
  /\ sc_call' = "grade"
  /\ \E a \in GradeInputs, b \in GradeInputs :
       /\ score_a' = a
       /\ score_b' = b
       /\ grade_a' = calculate_grade(a)
       /\ grade_b' = calculate_grade(b)
  /\ UNCHANGED <<volume, difficulty, volume_score, difficulty_score,
                 metrics, keyword_score,
                 keywords_metrics, scores, keyword_scores, count, min_grade,
                 top>>

\* longest list of records
MaxList == 3

\* largest count asked of get_top_keywords, and the smallest negated
MaxCount == 3

\* a trend input whose series holds something that is not a number:
\* statistics.mean raises on it
Malformed == [shape |-> "malformed", score |-> 0, values |-> <<>>]

Plain(n) == [shape |-> "number", score |-> n, values |-> <<>>]

\* the records of the lists: a strong keyword, two keywords with the same
\* score, a keyword with nothing in its favour, and a record whose scoring
\* raises.  Their volumes are 0 or powers of ten.
SampleMetrics ==
  { [keyword |-> "a", search_volume |-> high_volume, keyword_difficulty |-> 0,
     cpc |-> high_cpc, trend_score |-> Plain(60)],
    [keyword |-> "b", search_volume |-> 1000, keyword_difficulty |-> 50,
     cpc |-> medium_cpc, trend_score |-> Plain(60)],
    [keyword |-> "c", search_volume |-> 1000, keyword_difficulty |-> 50,
     cpc |-> medium_cpc, trend_score |-> Plain(60)],
    [keyword |-> "d", search_volume |-> 0, keyword_difficulty |-> 100,
     cpc |-> 0, trend_score |-> Plain(-60)],
    [keyword |-> "e", search_volume |-> 1000, keyword_difficulty |-> 50,
     cpc |-> medium_cpc, trend_score |-> Malformed] }

RECURSIVE ListsOf(_, _)
ListsOf(S, n) ==
  IF n = 0 THEN {<<>>}
  ELSE ListsOf(S, n - 1)
         \cup {Append(q, x) : q \in {r \in ListsOf(S, n - 1) : Len(r) = n - 1},
                              x \in S}

\* calculate_keyword_score(metrics) raises
Raises(m) == m.trend_score.shape = "malformed"

\* the score of a record whose volume is 0 or a power of ten
ScoreOf(m) ==
  KeywordScore(m, CHOOSE vs \in normalize_search_volume(m.search_volume) : TRUE)

\* the body of the loop of score_keyword_list: the try appends the score,
\* the except clause logs and goes on
RECURSIVE ScoreEach(_)
ScoreEach(list) ==
  IF list = <<>> THEN <<>>
  ELSE IF Raises(Head(list)) THEN ScoreEach(Tail(list))
  ELSE <<ScoreOf(Head(list))>> \o ScoreEach(Tail(list))

\* x put into a list sorted by total_score descending, after the entries
\* that are not below it
RECURSIVE Insert(_, _)
Insert(x, sorted) ==
  IF sorted = <<>> THEN <<x>>
  ELSE IF Head(sorted).total_score >= x.total_score
    THEN <<Head(sorted)>> \o Insert(x, Tail(sorted))
  ELSE <<x>> \o sorted

RECURSIVE SortFrom(_, _)
SortFrom(list, sorted) ==
  IF list = <<>> THEN sorted
  ELSE SortFrom(Tail(list), Insert(Head(list), sorted))

\* score_keyword_list without its sort
Unsorted(list) == list

\* scores.sort(key=lambda x: x.total_score, reverse=True), a stable sort
SortDescending(list) == SortFrom(list, <<>>)

\* score_keyword_list(keywords_metrics)
score_keyword_list(list) == SortDescending(ScoreEach(list))

\* one call of score_keyword_list
ListCall ==
  /\ sc_call = "none"
  /\ sc_call' = "list"
  /\ \E list \in ListsOf(SampleMetrics, MaxList) :
       /\ keywords_metrics' = list
       /\ scores' = score_keyword_list(list)
  /\ UNCHANGED <<volume, difficulty, volume_score, difficulty_score,
                 metrics, keyword_score, score_a, score_b, grade_a, grade_b,
                 keyword_scores, count, min_grade, top>>

\* self.GRADE_THRESHOLDS[min_grade]
ThresholdOf(grade) ==
  LET i == CHOOSE j \in DOMAIN GRADE_THRESHOLDS : GRADE_THRESHOLDS[j][1] = grade
  IN Points(GRADE_THRESHOLDS[i][2])

Grades == {GRADE_THRESHOLDS[i][1] : i \in DOMAIN GRADE_THRESHOLDS}

\* the comprehension of get_top_keywords
Filtered(list, min_score) ==
  SelectSeq(list, LAMBDA score : score.total_score >= min_score)

\* list[:n]
Slice(list, n) ==
  IF n >= 0 THEN SubSeq(list, 1, Min(n, Len(list)))
  ELSE SubSeq(list, 1, Max(Len(list) + n, 0))

\* get_top_keywords(keyword_scores, count, min_grade)
get_top_keywords(list, n, grade) == Slice(Filtered(list, ThresholdOf(grade)), n)

\* the scored keywords handed to get_top_keywords, in any order
SampleScores == {ScoreOf(m) : m \in {r \in SampleMetrics : ~Raises(r)}}

\* one call of get_top_keywords
TopCall ==
  /\ sc_call = "none"
  /\ sc_call' = "top"
  /\ \E list \in ListsOf(SampleScores, MaxList),
        n \in (0 - MaxCount)..MaxCount, grade \in Grades :
       /\ keyword_scores' = list
       /\ count' = n
       /\ min_grade' = grade
       /\ top' = get_top_keywords(list, n, grade)
  /\ UNCHANGED <<volume, difficulty, volume_score, difficulty_score,
                 metrics, keyword_score, score_a, score_b, grade_a, grade_b,
                 keywords_metrics, scores>>

\* one call of each of the two normalizations
NormalizeCall ==
  /\ sc_call = "none"
  /\ sc_call' = "normalize"
  /\ \E v \in Volumes, d \in Difficulties :
       /\ volume' = v
       /\ difficulty' = d
       /\ volume_score' \in normalize_search_volume(v)
       /\ difficulty_score' = normalize_keyword_difficulty(d)
  /\ UNCHANGED <<metrics, keyword_score, score_a, score_b, grade_a, grade_b,
                 keywords_metrics, scores, keyword_scores, count, min_grade,
                 top>>

InitScorer ==
  /\ sc_call = "none"
  /\ volume = 0
  /\ difficulty = 0
  /\ volume_score = 0
  /\ difficulty_score = 0
  /\ metrics = NoMetrics
  /\ keyword_score = NoScore
  /\ score_a = 0
  /\ score_b = 0
  /\ grade_a = "D"
  /\ grade_b = "D"
  /\ keywords_metrics = <<>>
  /\ scores = <<>>
  /\ keyword_scores = <<>>
  /\ count = 0
  /\ min_grade = "C"
  /\ top = <<>>

NextScorer ==
  \/ NormalizeCall
  \/ ScoreCall
  \/ GradeCall
  \/ ListCall
  \/ TopCall

\* ============================================== pipeline/orchestrator.py
\* number of entries of agents_config the model configures (the first ones)
NumAgents == 2
\* number of run_pipeline calls made on one orchestrator
MaxRuns == 2

AllAgentsConfig ==
  <<"market_research", "keyword_analyzer", "content_structure",
    "content_writer", "image_placement", "seo_audit", "content_refresher">>

agents_config == SubSeq(AllAgentsConfig, 1, NumAgents)

\* agent_config.get("timeout", 120)
AgentTimeout(name) ==
  CASE name = "market_research" -> 120
    [] name = "keyword_analyzer" -> 90
    [] name = "content_structure" -> 60
    [] name = "content_writer" -> 300
    [] name = "image_placement" -> 60
    [] name = "seo_audit" -> 90
    [] OTHER -> 60

\* f"{agent_name}_result"
ResultKey(name) ==
  CASE name = "market_research" -> "market_research_result"
    [] name = "keyword_analyzer" -> "keyword_analyzer_result"
    [] name = "content_structure" -> "content_structure_result"
    [] name = "content_writer" -> "content_writer_result"
    [] name = "image_placement" -> "image_placement_result"
    [] name = "seo_audit" -> "seo_audit_result"
    [] OTHER -> "content_refresher_result"

\* the keys of the mapping MockAgent.execute returns
MockResult(name) == {ResultKey(name), "status", "processing_time"}

\* what an agent's execute raises (str(e)), as far as the orchestrators
\* look at it
AgentErrors == {"execution error"}

\* the input mappings run_pipeline is called with, by their keys
InputChoices == {{"product_name"}, {"product_name", "niche"}}

EmptyMapping == [k \in {} |-> "none"]

\* pipeline_output = {"pipeline_id": ..., "generated_at": ..., "language": ...,
\*                    **input_data}
InitialOutput(input_data) ==
  [k \in {"pipeline_id", "generated_at", "language"} \cup input_data |->
     IF k \in input_data THEN "input" ELSE "orchestrator"]

\* an assignment in place of the update: pipeline_output = agent_result
ReplaceBy(mapping, writer, keys) == [k \in keys |-> writer]

\* dict.update: the keys of the update are added or overwritten
Update(mapping, writer, keys) ==
  [k \in (DOMAIN mapping) \cup keys |->
     IF k \in keys THEN writer ELSE mapping[k]]

\* self.results[agent_name] = agent_result
StoreResult(res, name, keys) ==
  [a \in (DOMAIN res) \cup {name} |-> IF a = name THEN keys ELSE res[a]]

\* what the callback of an event subscriber does with the event it is given
CallbackOutcomes == {"returned", "raised"}

\* a publish whose try statement around callback(event) catches nothing
PublishCatchesNothing(kind) == FALSE

\* EventBus.publish: try: callback(event) / except Exception
PublishCatches(kind) == kind \in {"Exception"}

\* publish raises when a callback raises what its except clause lets through
PublishRaises(cb) == cb = "raised" /\ ~PublishCatches("Exception")

\* str(e) of the exception of a callback
CallbackError == "callback error"

\* len(self.results) / len(self.agents_config) * 100, as a whole percentage
SuccessRate(n, total) == (n * 100) \div total

\* PipelineEvent(event_type, data): the data the model looks at
Event(type, name) ==
  [type |-> type, agent |-> name, status |-> "none", success_rate |-> -1]

\* PipelineEvent("pipeline_completed", {"status": ..., "success_rate": ...})
CompletedEvent(st, res) ==
  [type |-> "pipeline_completed", agent |-> "none", status |-> st,
   success_rate |-> SuccessRate(Cardinality(DOMAIN res), Len(agents_config))]

\* error_msg of execute_agent after asyncio.TimeoutError
AgentTimeoutMessage(name) ==
  <<"Agent", name, "timed out after", ToString(AgentTimeout(name)), "s">>

\* error_msg of execute_agent after another exception
AgentErrorMessage(name, e) == <<"Agent", name, "failed:", e>>

\* f"Pipeline failed: {str(e)}"
PipelineFailedMessage(e) == <<"Pipeline failed:", e>>

\* an except clause for TimeoutError whose raise is caught again by the
\* clause for Exception after it
RecordTimeoutTwice(errs, name) ==
  errs \o <<AgentTimeoutMessage(name), AgentErrorMessage(name, "timed out")>>

\* except asyncio.TimeoutError: self.errors.append(error_msg)
RecordTimeout(errs, name) == Append(errs, AgentTimeoutMessage(name))

\* a final status without its last branch: the status stays RUNNING
FinalStatusWithoutElse(errs, res) ==
  IF Len(errs) = 0 THEN "completed"
  ELSE IF Cardinality(DOMAIN res) > 0 THEN "completed"
  ELSE "running"

\* "Determine final status"
FinalStatus(errs, res) ==
  IF Len(errs) = 0 THEN "completed"
  ELSE IF Cardinality(DOMAIN res) > 0 THEN "completed"
  ELSE "failed"

\* pipeline_output["processing_summary"]
Summary(res, errs) ==
  [total_agents |-> Len(agents_config),
   successful_agents |-> Cardinality(DOMAIN res),
   failed_agents |-> Len(errs),
   errors |-> errs]

CurrentAgent == agents_config[agent_index]

\* a loop that stops at the first failure: break instead of continue
BreakAfterFailure(i) == Len(agents_config) + 1

\* "Continue with next agent even if one fails": the loop position after the
\* except clause of the loop body
ContinueAfterFailure(i) == i + 1

\* a loop body that starts execute_agent as a task and does not await it
StartsWithoutAwait(pc, i) ==
  pc \in {"loop", "executing"} /\ i <= Len(agents_config)

\* agent_result = await self.execute_agent(...): an iteration begins only
\* when the one before it is over
StartsNextIteration(pc, i) == pc = "loop" /\ i <= Len(agents_config)

\* the key an agent stores in the mapping it was given
AgentScratchKey == "agent_notes"

\* run_pipeline up to the first agent: start_time, RUNNING, a new
\* pipeline_output (nothing is returned yet), pipeline_started.  The publish
\* is outside the try statement: what it raises leaves run_pipeline.
RunPipelineBegin ==
  /\ o_pc \in {"idle", "returned", "raised"}
  /\ runs < MaxRuns
  /\ runs' = runs + 1
  /\ o_status' = "running"
  /\ \E input_data \in InputChoices :
       pipeline_output' = InitialOutput(input_data)
  /\ bus' = <<Event("pipeline_started", "none")>>
  /\ agent_index' = 1
  /\ executed' = <<>>
  /\ succeeded' = {}
  /\ failed' = {}
  /\ returned' = EmptyMapping
  /\ processing_summary' = Summary(EmptyMapping, <<>>)
  /\ \E cb \in CallbackOutcomes :
       /\ callback_raised' = (cb = "raised")
       /\ o_pc' = IF PublishRaises(cb) THEN "raised" ELSE "loop"
  /\ UNCHANGED <<results, errors>>

\* one iteration, up to the await in execute_agent: agent_started is
\* published, the agent is loaded and its execute is called.  The publish is
\* inside the outer try statement only: what it raises is handled by the
\* outer except clause (FAILED, "Pipeline failed: ...").
AgentStart ==
  /\ StartsNextIteration(o_pc, agent_index)
  /\ bus' = Append(bus, Event("agent_started", CurrentAgent))
  /\ \E cb \in CallbackOutcomes :
       /\ callback_raised' = (callback_raised \/ cb = "raised")
       /\ IF PublishRaises(cb)
            THEN /\ o_status' = "failed"
                 /\ errors' = Append(errors, PipelineFailedMessage(CallbackError))
                 /\ o_pc' = "finally"
                 /\ UNCHANGED executed
            ELSE /\ executed' = Append(executed, CurrentAgent)
                 /\ o_pc' = "executing"
                 /\ UNCHANGED <<o_status, errors>>
  /\ UNCHANGED <<results, pipeline_output, agent_index, returned,
                 processing_summary, runs, succeeded, failed>>

\* execute_agent(agent_config, pipeline_output) hands the agent the mapping
\* itself: what the agent stores in its input_data is stored in
\* pipeline_output
AgentWritesInput ==
  /\ o_pc = "executing"
  /\ ~(/\ AgentScratchKey \in DOMAIN pipeline_output
       /\ pipeline_output[AgentScratchKey] = CurrentAgent)
  /\ pipeline_output' = Update(pipeline_output, CurrentAgent, {AgentScratchKey})
  /\ UNCHANGED <<o_status, results, errors, o_pc, agent_index, bus, returned,
                 processing_summary, runs, executed, succeeded, failed,
                 callback_raised>>

\* execute returned: agent_completed, results, merge into pipeline_output.
\* What the publish raises is handled by the except Exception clause of
\* execute_agent like an exception of the agent.
AgentSucceeds ==
  /\ o_pc = "executing"
  /\ \E cb \in CallbackOutcomes :
       /\ callback_raised' = (callback_raised \/ cb = "raised")
       /\ IF PublishRaises(cb)
            THEN /\ bus' = bus \o <<Event("agent_completed", CurrentAgent),
                                    Event("agent_agent_failed", CurrentAgent)>>
                 /\ errors' =
                      Append(errors, AgentErrorMessage(CurrentAgent, CallbackError))
                 /\ failed' = failed \cup {CurrentAgent}
                 /\ agent_index' = ContinueAfterFailure(agent_index)
                 /\ UNCHANGED <<results, pipeline_output, succeeded>>
            ELSE /\ bus' = Append(bus, Event("agent_completed", CurrentAgent))
                 /\ results' =
                      StoreResult(results, CurrentAgent, MockResult(CurrentAgent))
                 /\ pipeline_output' =
                      Update(pipeline_output, CurrentAgent, MockResult(CurrentAgent))
                 /\ succeeded' = succeeded \cup {CurrentAgent}
                 /\ agent_index' = agent_index + 1
                 /\ UNCHANGED <<errors, failed>>
  /\ o_pc' = "loop"
  /\ UNCHANGED <<o_status, returned, processing_summary, runs, executed>>

\* wait_for gave up: the error is recorded, agent_timeout is published, the
\* exception raised (by the handler, or by the publish in it) is caught by
\* run_pipeline, which continues
AgentTimesOut ==
  /\ o_pc = "executing"
  /\ errors' = RecordTimeout(errors, CurrentAgent)
  /\ bus' = Append(bus, Event("agent_timeout", CurrentAgent))
  /\ \E cb \in CallbackOutcomes :
       callback_raised' = (callback_raised \/ cb = "raised")
  /\ failed' = failed \cup {CurrentAgent}
  /\ agent_index' = ContinueAfterFailure(agent_index)
  /\ o_pc' = "loop"
  /\ UNCHANGED <<o_status, results, pipeline_output, returned,
                 processing_summary, runs, executed, succeeded>>

\* execute raised: the error is recorded, agent_agent_failed is published,
\* the exception raised (by the handler, or by the publish in it) is caught
\* by run_pipeline, which continues
AgentRaises ==
  /\ o_pc = "executing"
  /\ \E e \in AgentErrors :
       errors' = Append(errors, AgentErrorMessage(CurrentAgent, e))
  /\ bus' = Append(bus, Event("agent_agent_failed", CurrentAgent))
  /\ \E cb \in CallbackOutcomes :
       callback_raised' = (callback_raised \/ cb = "raised")
  /\ failed' = failed \cup {CurrentAgent}
  /\ agent_index' = ContinueAfterFailure(agent_index)
  /\ o_pc' = "loop"
  /\ UNCHANGED <<o_status, results, pipeline_output, returned,
                 processing_summary, runs, executed, succeeded>>

\* after the loop, or after the outer except clause: the final status, the
\* finally block (processing summary, pipeline_completed) and the return.
\* What the publish of the finally block raises leaves run_pipeline.
RunPipelineFinish ==
  /\ o_pc \in {"loop", "finally"}
  /\ (o_pc = "loop") => agent_index > Len(agents_config)
  /\ o_status' =
       IF o_pc = "finally" THEN o_status ELSE FinalStatus(errors, results)
  /\ processing_summary' = Summary(results, errors)
  /\ pipeline_output' =
       Update(pipeline_output, "orchestrator", {"processing_summary"})
  /\ bus' = Append(bus, CompletedEvent(o_status', results))
  /\ \E cb \in CallbackOutcomes :
       /\ callback_raised' = (callback_raised \/ cb = "raised")
       /\ IF PublishRaises(cb)
            THEN o_pc' = "raised" /\ UNCHANGED returned
            ELSE o_pc' = "returned" /\ returned' = pipeline_output'
  /\ UNCHANGED <<results, errors, agent_index, runs, executed, succeeded,
                 failed>>

InitOrch ==
  /\ o_status = "pending"
  /\ results = EmptyMapping
  /\ errors = <<>>
  /\ pipeline_output = EmptyMapping
  /\ o_pc = "idle"
  /\ agent_index = 1
  /\ bus = <<>>
  /\ returned = EmptyMapping
  /\ processing_summary = Summary(EmptyMapping, <<>>)
  /\ runs = 0
  /\ executed = <<>>
  /\ succeeded = {}
  /\ failed = {}
  /\ callback_raised = FALSE

\* ============================================ pipeline/orchestratorV2.py
agent_names ==
  <<"1_market_research", "2_keyword_analyzer", "3_content_planner",
    "4_seo_optimizer", "5_content_writer", "6_quality_checker", "7_publisher">>

\* agent_key.split('_', 1)[1]
DataKey(agent_key) ==
  CASE agent_key = "1_market_research" -> "market_research"
    [] agent_key = "2_keyword_analyzer" -> "keyword_analyzer"
    [] agent_key = "3_content_planner" -> "content_planner"
    [] agent_key = "4_seo_optimizer" -> "seo_optimizer"
    [] agent_key = "5_content_writer" -> "content_writer"
    [] agent_key = "6_quality_checker" -> "quality_checker"
    [] OTHER -> "publisher"

\* a key of the data mapping the agent returns on success (result.data)
DataKeys(agent_key) ==
  CASE agent_key = "1_market_research" -> {"market_research_summary"}
    [] agent_key = "2_keyword_analyzer" -> {"analysis_summary"}
    [] agent_key = "3_content_planner" -> {"planning_summary"}
    [] agent_key = "4_seo_optimizer" -> {"seo_summary"}
    [] agent_key = "5_content_writer" -> {"writing_summary"}
    [] agent_key = "6_quality_checker" -> {"quality_summary"}
    [] OTHER -> {"publication_summary"}

\* "Skip certain agents if configured"
Skipped(agent_key) ==
  \/ agent_key = "6_quality_checker" /\ skip_quality_check
  \/ agent_key = "7_publisher" /\ skip_publishing

\* a longer list of critical agents
CriticalAgentsWithPlanner == {"3_content_planner", "5_content_writer"}

\* "Critical agents - stop if they fail": if agent_key in ["5_content_writer"]
CriticalAgents == {"5_content_writer"}

\* the keys run_pipeline seeds self.pipeline_data with
ConfigKeys ==
  {"product_name", "niche", "target_audience", "target_keywords",
   "content_length", "budget"}

V2Agent == agent_names[v2_index]

SetOutcome(f, agent_key, how) ==
  [a \in (DOMAIN f) \cup {agent_key} |-> IF a = agent_key THEN how ELSE f[a]]

\* a returned mapping whose success flag tells whether any agent completed
V2ResultByCompleted(errs, res) ==
  [success |-> Cardinality(res) > 0,
   agents_completed |-> Cardinality(res),
   errors |-> errs]

\* the mapping run_pipeline returns
V2Result(errs, res) ==
  [success |-> Len(errs) = 0,
   agents_completed |-> Cardinality(res),
   errors |-> errs]

NoV2Result == [success |-> FALSE, agents_completed |-> -1, errors |-> <<>>]

\* run_pipeline up to the loop: start_time, header, self.pipeline_data
V2RunBegin ==
  /\ v2_pc = "idle"
  /\ pipeline_data' = ConfigKeys
  /\ v2_index' = 1
  /\ v2_pc' = "loop"
  /\ UNCHANGED <<skip_quality_check, skip_publishing, agent_results,
                 v2_errors, v2_returned, v2_executed, v2_outcome>>

\* an iteration that skips its agent
V2Skip ==
  /\ v2_pc = "loop"
  /\ v2_index <= Len(agent_names)
  /\ Skipped(V2Agent)
  /\ v2_index' = v2_index + 1
  /\ UNCHANGED <<skip_quality_check, skip_publishing, pipeline_data,
                 agent_results, v2_errors, v2_pc, v2_returned, v2_executed,
                 v2_outcome>>

\* an iteration whose agent.execute returns a response with success = TRUE
V2AgentSucceeds ==
  /\ v2_pc = "loop"
  /\ v2_index <= Len(agent_names)
  /\ ~Skipped(V2Agent)
  /\ agent_results' = agent_results \cup {V2Agent}
  /\ pipeline_data' = pipeline_data \cup {DataKey(V2Agent)}
  /\ v2_executed' = Append(v2_executed, V2Agent)
  /\ v2_outcome' = SetOutcome(v2_outcome, V2Agent, "ok")
  /\ v2_index' = v2_index + 1
  /\ UNCHANGED <<skip_quality_check, skip_publishing, v2_errors, v2_pc,
                 v2_returned>>

\* an iteration whose agent.execute returns a response with success = FALSE
V2AgentFails ==
  /\ v2_pc = "loop"
  /\ v2_index <= Len(agent_names)
  /\ ~Skipped(V2Agent)
  /\ v2_errors' = Append(v2_errors, <<V2Agent, "failed:", "errors">>)
  /\ v2_executed' = Append(v2_executed, V2Agent)
  /\ v2_outcome' = SetOutcome(v2_outcome, V2Agent, "failed")
  /\ v2_index' = v2_index + 1
  /\ UNCHANGED <<skip_quality_check, skip_publishing, pipeline_data,
                 agent_results, v2_pc, v2_returned>>

\* what the except clause of the loop does after recording the error
AfterCrash(agent_key) == IF agent_key \in CriticalAgents THEN "break" ELSE "loop"

\* an iteration whose agent.execute raises
V2AgentCrashes ==
  /\ v2_pc = "loop"
  /\ v2_index <= Len(agent_names)
  /\ ~Skipped(V2Agent)
  /\ \E e \in AgentErrors :
       v2_errors' = Append(v2_errors, <<V2Agent, "exception:", e>>)
  /\ v2_executed' = Append(v2_executed, V2Agent)
  /\ v2_outcome' = SetOutcome(v2_outcome, V2Agent, "raised")
  /\ v2_pc' = AfterCrash(V2Agent)
  /\ v2_index' = IF AfterCrash(V2Agent) = "break" THEN v2_index ELSE v2_index + 1
  /\ UNCHANGED <<skip_quality_check, skip_publishing, pipeline_data,
                 agent_results, v2_returned>>

\* after the loop: summary, saved results, the return
V2RunFinish ==
  /\ \/ v2_pc = "loop" /\ v2_index > Len(agent_names)
     \/ v2_pc = "break"
  /\ v2_returned' = V2Result(v2_errors, agent_results)
  /\ v2_pc' = "returned"
  /\ UNCHANGED <<skip_quality_check, skip_publishing, pipeline_data,
                 agent_results, v2_errors, v2_index, v2_executed, v2_outcome>>

InitV2 ==
  /\ pipeline_data = {}
  /\ agent_results = {}
  /\ v2_errors = <<>>
  /\ v2_pc = "idle"
  /\ v2_index = 1
  /\ v2_returned = NoV2Result
  /\ v2_executed = <<>>
  /\ v2_outcome = EmptyMapping

\* PipelineConfig defaults
DefaultFlags == skip_quality_check = TRUE /\ skip_publishing = FALSE

\* ======================================================== specifications
NextOrch ==
  \/ RunPipelineBegin
  \/ AgentStart
  \/ AgentWritesInput
  \/ AgentSucceeds
  \/ AgentTimesOut
  \/ AgentRaises
  \/ RunPipelineFinish

NextV2 ==
  \/ V2RunBegin
  \/ V2Skip
  \/ V2AgentSucceeds
  \/ V2AgentFails
  \/ V2AgentCrashes
  \/ V2RunFinish

\* one agent, its callbacks and its execute calls
Init == InitAgent /\ InitOrch /\ InitV2 /\ DefaultFlags /\ InitParse /\ InitScorer

SpecAgent == Init /\ [][NextAgent /\ UNCHANGED <<orchVars, v2Vars, parseVars, scorerVars>>]_vars

SpecAgentFair ==
  /\ Init
  /\ [][NextAgent /\ UNCHANGED <<orchVars, v2Vars, parseVars, scorerVars>>]_vars
  /\ WF_vars(InCallStep /\ UNCHANGED <<orchVars, v2Vars, parseVars, scorerVars>>)

\* one orchestrator of orchestrator.py and its run_pipeline calls
\* BaseAgent.execute with callbacks that may raise
InitCallbacks ==
  /\ InitAgentRaising /\ InitOrch /\ InitV2 /\ DefaultFlags /\ InitParse
  /\ InitScorer

SpecAgentCallbacks ==
  InitCallbacks
    /\ [][NextAgent /\ UNCHANGED <<orchVars, v2Vars, parseVars, scorerVars>>]_vars

InitPipeline ==
  /\ InitAgent /\ max_retries = MaxRetries
  /\ InitOrch /\ InitV2 /\ DefaultFlags /\ InitParse /\ InitScorer

SpecOrch == InitPipeline /\ [][NextOrch /\ UNCHANGED <<agentVars, v2Vars, parseVars, scorerVars>>]_vars

\* one orchestrator of orchestratorV2.py, any configuration of the skip flags
InitPipelineV2 ==
  /\ InitAgent /\ max_retries = MaxRetries
  /\ InitOrch /\ InitV2 /\ InitParse /\ InitScorer
  /\ skip_quality_check \in BOOLEAN
  /\ skip_publishing \in BOOLEAN

SpecV2 == InitPipelineV2 /\ [][NextV2 /\ UNCHANGED <<agentVars, orchVars, parseVars, scorerVars>>]_vars

\* the parser of BaseAgent called with any text
SpecParse ==
  InitPipeline /\ [][ParseCall /\ UNCHANGED <<agentVars, orchVars, v2Vars, scorerVars>>]_vars

\* the methods of a KeywordScorer, each called once with any argument
SpecScorer ==
  InitPipeline
    /\ [][NextScorer /\ UNCHANGED <<agentVars, orchVars, v2Vars, parseVars>>]_vars

\* ------------------------------------------------------ claims, BaseAgent
Attempts == {i \in 1..Len(trace) : trace[i].op = "attempt"}
Sleeps == {i \in 1..Len(trace) : trace[i].op = "sleep"}
SomeAttemptReturned == \E i \in Attempts : trace[i].outcome = "returned"
Done == a_pc = "done"
GaveUp == exc # NoError
Contains(msg, token) == \E j \in 1..Len(msg) : msg[j] = token

\* C1: execute invokes process at most max_retries times and no more after
\* the first attempt that returns; when every attempt raised or timed out,
\* process was invoked exactly max_retries times and execute returns a
\* response with success = FALSE whose error message holds the retry count.
C1_RetryBound ==
  /\ calls <= max_retries
  /\ calls = Cardinality(Attempts)
  /\ \A i \in Attempts : trace[i].outcome = "returned" => i = Len(trace)
  /\ (Done /\ ~SomeAttemptReturned) =>
        /\ calls = max_retries
        /\ response.produced
        /\ response.success = FALSE
        /\ Len(response.errors) = 1
        /\ Contains(response.errors[1], ToString(max_retries))

C1_Witness ==
  /\ Done
  /\ max_retries = 3
  /\ calls = 3
  /\ ~SomeAttemptReturned
  /\ \E i \in Attempts : trace[i].outcome = "timeout"
  /\ \E i \in Attempts : trace[i].outcome = "raised"

\* C2: between every two consecutive attempts, and never after the last one,
\* a backoff wait of 2^attempt seconds takes place, after a timeout as after
\* any other exception.
C2_BackoffBetweenAttempts ==
  /\ \A i \in Attempts :
        (i < Len(trace) /\ trace[i].outcome # "returned") =>
          /\ trace[i + 1].op = "sleep"
          /\ trace[i + 1].n = Pow2(trace[i].n)
  /\ \A i \in Sleeps :
        /\ i > 1
        /\ trace[i - 1].op = "attempt"
        /\ trace[i - 1].n < max_retries - 1
  /\ Done => (trace # <<>> /\ trace[Len(trace)].op = "attempt")

\* C3: no exception leaves execute; every started call ends by returning an
\* AgentResponse, and a call in which the retry wrapper gave up returns one
\* with success = FALSE.
C3_NeverRaises ==
  /\ [](a_pc # "escaped")
  /\ [](Done => response.produced)
  /\ []((Done /\ GaveUp) => response.success = FALSE)
  /\ ((a_pc \notin {"idle", "done"}) ~> Done)

C3_Witness ==
  /\ Done
  /\ GaveUp
  /\ response.produced
  /\ response.success = FALSE

\* C4: a response execute returns with success = FALSE has empty data and at
\* least one error; the one execute builds itself when the retries are used
\* up has data = {}, exactly one error message and metadata agent_name and
\* failure_reason.
C4_FailureShape ==
  Done =>
    /\ (response.success = FALSE) =>
          (response.data = {} /\ Len(response.errors) >= 1)
    /\ GaveUp =>
          /\ response.success = FALSE
          /\ response.data = {}
          /\ Len(response.errors) = 1
          /\ response.metadata = {"agent_name", "failure_reason"}

C4_Witness ==
  /\ Done
  /\ GaveUp
  /\ response.success = FALSE
  /\ response.data = {}

\* a returned response with success = FALSE that process itself produced
C4_WitnessProcessFailure ==
  /\ Done
  /\ ~GaveUp
  /\ response.success = FALSE

\* C5: when process succeeds, execute returns the response process produced
\* with processing_time replaced by the duration execute measured.
C5_ProcessingTimeMeasured ==
  (Done /\ ~GaveUp /\ result.success) =>
    response = [result EXCEPT !.processing_time = processing_time]

\* C6: with an event callback set, a call emits agent_started before the
\* first invocation of process and then exactly one terminal event,
\* agent_completed when the retry wrapper returned and agent_failed when it
\* gave up.
C6_EventOrder ==
  (event_callback /\ a_pc \notin {"idle"}) =>
    /\ Len(events) >= 1
    /\ events[1] = "agent_started"
    /\ \A i \in 2..Len(events) : events[i] # "agent_started"
    /\ ~Done => events = <<"agent_started">>
    /\ (Done /\ ~GaveUp) => events = <<"agent_started", "agent_completed">>
    /\ (Done /\ GaveUp) => events = <<"agent_started", "agent_failed">>

C6_Witness ==
  /\ Done
  /\ event_callback
  /\ GaveUp
  /\ events = <<"agent_started", "agent_failed">>

\* ------------------------------------------- claims, orchestrator.py
Returned == o_pc = "returned"

\* C7: after run_pipeline returns, results holds exactly the agents that
\* succeeded, errors holds one entry per agent that failed, and the returned
\* output holds every key of every successful agent's result.
C7_ResultsAndErrors ==
  Returned =>
    /\ DOMAIN results = succeeded
    /\ Len(errors) = Cardinality(failed)
    /\ \A a \in succeeded : results[a] \subseteq DOMAIN returned

\* C8: when the agent loop is over the status is COMPLETED exactly when
\* results is non-empty, which is when an agent of this run produced a
\* result, and FAILED otherwise.
C8_StatusFromResults ==
  Returned =>
    /\ o_status \in {"completed", "failed"}
    /\ (o_status = "completed") <=> (DOMAIN results # {})
    /\ (DOMAIN results # {}) <=> (succeeded # {})

\* C9: in every run each configured agent is executed exactly once, in the
\* configured order, whatever the agents before it did: a failure neither
\* stops the loop nor runs an earlier agent again.
C9_EveryAgentOnceInOrder ==
  /\ Len(executed) <= Len(agents_config)
  /\ executed = SubSeq(agents_config, 1, Len(executed))
  /\ (o_pc = "loop") => Len(executed) = agent_index - 1
  /\ (o_pc = "executing") => Len(executed) = agent_index
  /\ Returned => executed = agents_config
  /\ succeeded \cup failed \subseteq {executed[i] : i \in 1..Len(executed)}

C9_Witness ==
  /\ Returned
  /\ executed = agents_config
  /\ agents_config[1] \in failed
  /\ agents_config[Len(agents_config)] \in succeeded

\* C11: run_pipeline never raises: whatever the agents do (return, raise,
\* time out) and whatever the callbacks of the event subscribers do (return,
\* raise), the call ends by returning the pipeline output with its
\* processing summary; and when run_pipeline has recorded an exception that
\* came past the handling of the loop body ("Pipeline failed: ..."), the
\* status is FAILED.
C11_NeverRaises ==
  /\ o_pc # "raised"
  /\ Returned =>
       /\ returned = pipeline_output
       /\ "processing_summary" \in DOMAIN returned
       /\ \A i \in 1..Len(errors) :
            (i = Len(errors) /\ errors[i][1] = "Pipeline failed:") =>
               o_status = "failed"

\* every agent of the run failed and a subscriber's callback raised: the run
\* returned
C11_Witness ==
  /\ Returned
  /\ callback_raised
  /\ succeeded = {}
  /\ Cardinality(failed) = Len(agents_config)

\* C12: every output run_pipeline returns holds a processing_summary whose
\* total_agents is the number of configured agents, whose successful_agents
\* is the number of agents that succeeded in this run, whose failed_agents
\* is the number of agents that failed in this run, and whose errors holds
\* one message for each agent that failed in this run.
C12_SummaryOfThisRun ==
  Returned =>
    /\ "processing_summary" \in DOMAIN returned
    /\ processing_summary.total_agents = Len(agents_config)
    /\ processing_summary.successful_agents = Cardinality(succeeded)
    /\ processing_summary.failed_agents = Cardinality(failed)
    /\ Len(processing_summary.errors) = Cardinality(failed)
    /\ \A a \in failed :
         \E i \in 1..Len(processing_summary.errors) :
           processing_summary.errors[i][2] = a

\* ------------------------------------------ claims, orchestratorV2.py
Pos(agent_key) == CHOOSE i \in 1..Len(agent_names) : agent_names[i] = agent_key
V2Executed == {v2_executed[i] : i \in 1..Len(v2_executed)}
V2Failing == {a \in DOMAIN v2_outcome : v2_outcome[a] \in {"failed", "raised"}}
V2Recorded(a) == \E i \in 1..Len(v2_errors) : v2_errors[i][1] = a
V2Later(a) ==
  {agent_names[j] : j \in {i \in 1..Len(agent_names) : i > Pos(a)}}
WriterRaised ==
  /\ "5_content_writer" \in DOMAIN v2_outcome
  /\ v2_outcome["5_content_writer"] = "raised"

C10_WitnessWriterRaises ==
  /\ v2_pc = "returned"
  /\ WriterRaised
  /\ ~skip_publishing
  /\ "7_publisher" \notin V2Executed

\* ------------------------------------- claims, both orchestrators
\* the next step of the orchestratorV2 loop calls the execute of V2Agent
V2AboutToExecute ==
  v2_pc = "loop" /\ v2_index <= Len(agent_names) /\ ~Skipped(V2Agent)

\* C13: the mapping handed to an agent holds every key of the initial input
\* and every output key of each earlier agent that succeeded (the merge of
\* the agent before is complete when the agent is called).  In
\* orchestrator.py the mapping is pipeline_output during the call, in
\* orchestratorV2.py it is pipeline_data at the call.
C13_InputHasEarlierOutputs ==
  /\ (o_pc = "executing") =>
        /\ {"pipeline_id", "generated_at", "product_name"}
             \subseteq DOMAIN pipeline_output
        /\ \A a \in succeeded : MockResult(a) \subseteq DOMAIN pipeline_output
  /\ V2AboutToExecute =>
        /\ ConfigKeys \subseteq pipeline_data
        /\ \A b \in agent_results : DataKeys(b) \subseteq pipeline_data

\* a step of a run of orchestrator.py, from pipeline_started to the return
InRun == o_pc \in {"loop", "executing", "finally"}

\* C14: during a run the key set of the pipeline state only grows: every
\* key present before a step of the run is present after it, also when the
\* step is the failure of an agent.
C14_KeysOnlyGrow ==
  [][/\ InRun => DOMAIN pipeline_output \subseteq DOMAIN pipeline_output'
     /\ (v2_pc = "loop") => pipeline_data \subseteq pipeline_data']_vars

\* a run in which the first agent succeeded and the second failed has
\* returned: the keys of the input, of the run and of the first agent are
\* in the output
C14_Witness ==
  /\ Returned
  /\ agents_config[1] \in succeeded
  /\ agents_config[2] \in failed
  /\ {"pipeline_id", "generated_at", "language", "product_name"}
       \cup MockResult(agents_config[1]) \subseteq DOMAIN returned


\* what the status is at each position of run_pipeline, and never CANCELLED
StatusAtPosition ==
  /\ o_status \in {"pending", "running", "completed", "failed"}
  /\ (o_status = "pending") <=> (o_pc = "idle")
  /\ InRun => o_status \in {"running", "failed"}
  /\ (o_pc \in {"loop", "executing"}) => o_status = "running"
  /\ Returned => o_status \in {"completed", "failed"}

\* C15 as stated: the status only follows PENDING -> RUNNING -> COMPLETED
\* or FAILED: PENDING until run_pipeline is called, RUNNING while the
\* agents execute, COMPLETED or FAILED when run_pipeline returns, never
\* CANCELLED, and no other change of the status.
C15_StatusTransitions ==
  /\ []StatusAtPosition
  /\ [][\/ o_status' = o_status
        \/ o_status = "pending" /\ o_status' = "running"
        \/ o_status = "running" /\ o_status' \in {"completed", "failed"}]_vars

\* C15 as amended: the same, and a further run_pipeline call on an
\* orchestrator that has returned takes the status from COMPLETED or FAILED
\* back to RUNNING.
C15_StatusTransitionsPerCall ==
  /\ []StatusAtPosition
  /\ [][\/ o_status' = o_status
        \/ o_status = "pending" /\ o_status' = "running"
        \/ o_status = "running" /\ o_status' \in {"completed", "failed"}
        \/ /\ o_status \in {"completed", "failed"}
           /\ o_pc = "returned"
           /\ o_pc' = "loop"
           /\ runs' = runs + 1
           /\ o_status' = "running"]_vars

\* a second call is running its agents
C15_Witness ==
  /\ runs = 2
  /\ o_pc = "executing"
  /\ o_status = "running"

Started == {i \in 1..Len(bus) : bus[i].type = "agent_started"}
Ended ==
  {i \in 1..Len(bus) :
     bus[i].type \in {"agent_completed", "agent_timeout", "agent_agent_failed"}}

\* C16: agents run strictly one after the other: at most one agent has
\* started and not ended, and that only while its execute is awaited; the
\* agent_started event of the first agent follows pipeline_started, the
\* agent_started event of every other agent follows directly the
\* completion, failure or timeout event of the agent configured before it;
\* and each of those events follows the agent_started event of its agent.
C16_StrictlySequential ==
  /\ Cardinality(Started) - Cardinality(Ended) =
       IF o_pc = "executing" THEN 1 ELSE 0
  /\ \A i \in Started :
       /\ i > 1
       /\ \/ bus[i - 1].type = "pipeline_started" /\ bus[i].agent = agents_config[1]
          \/ /\ (i - 1) \in Ended
             /\ \E k \in 1..(Len(agents_config) - 1) :
                  /\ bus[i - 1].agent = agents_config[k]
                  /\ bus[i].agent = agents_config[k + 1]
  /\ \A i \in Ended :
       /\ (i - 1) \in Started
       /\ bus[i - 1].agent = bus[i].agent

\* the second agent is executing after the first one timed out or raised
C16_Witness ==
  /\ o_pc = "executing"
  /\ agent_index = 2
  /\ agents_config[1] \in failed
  /\ bus[Len(bus)] = Event("agent_started", agents_config[2])

Completed == {i \in 1..Len(bus) : bus[i].type = "pipeline_completed"}

\* C17: every run_pipeline call publishes exactly one pipeline_completed
\* event, as the last event of the run and so after every agent event; the
\* event carries the final status and a success rate that is the number of
\* agents that succeeded in the run divided by the number of configured
\* agents, times 100.
C17_OneCompletedEventLast ==
  /\ InRun => Completed = {}
  /\ Returned =>
       /\ Completed = {Len(bus)}
       /\ bus[Len(bus)].status = o_status
       /\ bus[Len(bus)].success_rate =
            SuccessRate(Cardinality(succeeded), Len(agents_config))

\* the step in which execute_agent handles asyncio.TimeoutError
TimeoutStep ==
  /\ o_pc = "executing"
  /\ Len(bus') = Len(bus) + 1
  /\ bus'[Len(bus')].type = "agent_timeout"

\* C18: when the execute of an agent does not finish within its timeout,
\* execute_agent records exactly one error, the timeout message of that
\* agent, publishes agent_timeout for it, adds nothing to results or to the
\* pipeline state, and the run, still RUNNING, goes on at the next agent.
C18_TimeoutRecordedOnce ==
  [][TimeoutStep =>
       /\ bus'[Len(bus')].agent = CurrentAgent
       /\ errors' = Append(errors, AgentTimeoutMessage(CurrentAgent))
       /\ results' = results
       /\ pipeline_output' = pipeline_output
       /\ o_status' = "running"
       /\ o_pc' = "loop"
       /\ agent_index' = agent_index + 1]_vars

\* the first agent of a first run timed out, one error is recorded and the
\* second agent has been started
C18_Witness ==
  /\ runs = 1
  /\ o_pc = "executing"
  /\ agent_index = 2
  /\ bus[3] = Event("agent_timeout", agents_config[1])
  /\ errors = <<AgentTimeoutMessage(agents_config[1])>>
  /\ DOMAIN results = {}

\* C19: the pipeline state is changed only by the merge step of the
\* orchestrator: while the execute of an agent is awaited, the only change
\* of pipeline_output is the update with the result of that agent when it
\* has succeeded; what the agent does with the mapping it was given, and
\* the failure of an agent, leave pipeline_output as it was.
C19_OnlyMergeChangesState ==
  [][(o_pc = "executing" /\ pipeline_output' # pipeline_output) =>
       /\ o_pc' = "loop"
       /\ CurrentAgent \in succeeded'
       /\ pipeline_output' =
            Update(pipeline_output, CurrentAgent, MockResult(CurrentAgent))]_vars

\* ------------------------------- claims, _parse_reasoning_response
MarkersIn(text) == {text[i] : i \in 1..Len(text)} \cap Markers

\* the first REASONING: is followed by a RESPONSE: before the next
\* REASONING:, and no CONFIDENCE: is given
StructuredWithoutConfidence(text) ==
  /\ "CONFIDENCE:" \notin MarkersIn(text)
  /\ \E i, j \in 1..Len(text) :
       /\ i < j
       /\ text[i] = "REASONING:"
       /\ text[j] = "RESPONSE:"
       /\ \A k \in 1..(j - 1) : k # i => text[k] # "REASONING:"

\* C20: _parse_reasoning_response never raises and its confidence is within
\* [0,100]; for a text without any marker it returns the text as response,
\* exactly one placeholder reasoning step and a confidence lower than the
\* default that a well-structured text without CONFIDENCE: gets (80); and
\* for a text that has only part of the markers and is not such a
\* well-structured text it returns the raw text as response too.
C20_ParserFallsBack ==
  parsed.called =>
    /\ ~parsed.raised
    /\ parsed.confidence \in 0..ConfidenceCeiling
    /\ StructuredWithoutConfidence(raw_response) =>
         parsed.confidence = DefaultConfidence
    /\ (MarkersIn(raw_response) = {}) =>
         /\ parsed.response = raw_response
         /\ Len(parsed.reasoning_steps) = 1
         /\ ~IsStep(parsed.reasoning_steps[1])
         /\ parsed.confidence < DefaultConfidence
    /\ (/\ MarkersIn(raw_response) \notin {{}, Markers}
        /\ ~StructuredWithoutConfidence(raw_response)) =>
         /\ parsed.response = raw_response
         /\ Len(parsed.reasoning_steps) = 1

\* a text with REASONING: and CONFIDENCE: but no RESPONSE: was parsed: the
\* lookup of the response part failed and the raw text came back
C20_Witness ==
  /\ parsed.called
  /\ MarkersIn(raw_response) = {"REASONING:", "CONFIDENCE:"}
  /\ parsed.response = raw_response
  /\ parsed.confidence = FailedConfidence

\* a text without any marker was parsed
C20_WitnessNoMarkers ==
  /\ parsed.called
  /\ Len(raw_response) = 2
  /\ MarkersIn(raw_response) = {}
  /\ parsed.confidence = DirectConfidence

\* -------------------------------------------- claims, KeywordScorer
\* C21: normalize_search_volume returns 0 for volume 0 and every negative
\* volume, 100 for volume 100000 and every larger volume, and a value in
\* [0,100] otherwise; normalize_keyword_difficulty returns 100 for
\* difficulty 0 and below, 0 for difficulty 100 and above, and
\* 100 - difficulty in between.
C21_NormalizationClamps ==
  (sc_call = "normalize") =>
    /\ (volume <= 0) => volume_score = 0
    /\ (volume >= high_volume) => volume_score = 100
    /\ volume_score \in 0..100
    /\ (difficulty <= 0) => difficulty_score = 100
    /\ (difficulty >= 100) => difficulty_score = 0
    /\ (difficulty > 0 /\ difficulty < 100) =>
         difficulty_score = 100 - difficulty

\* a volume above the benchmark and a difficulty above 100 were normalized
C21_Witness ==
  /\ sc_call = "normalize"
  /\ volume > high_volume
  /\ difficulty > 100
  /\ volume_score = 100
  /\ difficulty_score = 0

\* C22: for every KeywordMetrics, with any volume, difficulty and cpc and
\* any shape of the trend input, each of the four component scores and the
\* composite total_score lie within [0,100], the four weights summing to
\* 1.0.
C22_ScoresInRange ==
  (sc_call = "score") =>
    /\ \A c \in DOMAIN keyword_score.component_scores :
         keyword_score.component_scores[c] \in 0..100
    /\ keyword_score.total_score \in Points(0)..Points(100)
    /\ Points(1) = 10

\* the grade the table A+ 90, A 80, B+ 70, B 60, C+ 50, C 40, otherwise D
\* gives a score in tenths
TableGrade(score) ==
  IF score >= 900 THEN "A+"
  ELSE IF score >= 800 THEN "A"
  ELSE IF score >= 700 THEN "B+"
  ELSE IF score >= 600 THEN "B"
  ELSE IF score >= 500 THEN "C+"
  ELSE IF score >= 400 THEN "C"
  ELSE "D"

\* the place of a grade in the table, the best grade first
Rank(grade) ==
  CHOOSE i \in DOMAIN GRADE_THRESHOLDS : GRADE_THRESHOLDS[i][1] = grade

\* C23: _calculate_grade maps a score to the first grade of the descending
\* threshold table it reaches (A+ 90, A 80, B+ 70, B 60, C+ 50, C 40,
\* otherwise D, also for scores below 0), so for scores a > b the grade of a
\* is never worse than the grade of b.
C23_GradeMonotone ==
  (sc_call = "grade") =>
    /\ grade_a = TableGrade(score_a)
    /\ grade_b = TableGrade(score_b)
    /\ (score_a > score_b) => Rank(grade_a) <= Rank(grade_b)

\* a score below 0 and a score just below the A+ threshold were graded
C23_Witness ==
  /\ sc_call = "grade"
  /\ score_b < 0
  /\ grade_b = "D"
  /\ score_a = 899
  /\ grade_a = "A"

\* the places of a list that hold the keyword k
Places(list, k) == {i \in DOMAIN list : list[i].keyword = k}

C25_TopKeywords ==
  (sc_call = "top") =>
    /\ Len(top) <= Max(count, 0)
    /\ \A i \in DOMAIN top : top[i].total_score >= ThresholdOf(min_grade)
    /\ top = SubSeq(Filtered(keyword_scores, ThresholdOf(min_grade)),
                    1, Len(top))

\* ---------------------------------- claims, BaseAgent and its callbacks
\* C26: an exception raised by a registered progress callback or event
\* callback never escapes BaseAgent.execute: execute still returns an
\* AgentResponse, whether the callback raises during the start, during
\* process, or while the failure is being reported.
C26_CallbackNeverEscapes ==
  /\ a_pc # "escaped"
  /\ Done => response.produced

\* C27: whenever execute emits agent_completed and ends with status
\* 'completed', the AgentResponse it returns has success = TRUE; a process
\* that reports its failure by returning success = FALSE is handled as a
\* failed attempt (retried, then reported with agent_failed and status
\* 'failed').
C27_CompletedMeansSuccess ==
  /\ (Done /\ status = "completed") => response.success
  /\ (Done /\ ~response.success) =>
       /\ status = "failed"
       /\ event_callback => Contains(events, "agent_failed")

\* --------------------------- claims, orchestrator.py run after run
\* C28: after any sequence of run_pipeline calls on one orchestrator,
\* results, errors, status and processing summary describe the latest run
\* only: successful_agents + failed_agents = total_agents, and an agent that
\* failed in an earlier run but succeeded in the latest one leaves no entry
\* in errors.
C28_LatestRunOnly ==
  Returned =>
    /\ processing_summary.successful_agents + processing_summary.failed_agents
         = processing_summary.total_agents
    /\ \A a \in succeeded :
         \A i \in 1..Len(errors) : errors[i][2] # a
    /\ \A a \in DOMAIN results : a \in succeeded

\* C29: during one execute call the progress percentages pushed to the
\* progress callback and stored for get_status never decrease, across
\* process's own updates and across retries, and the last one is 100 with
\* status 'completed' or 'failed'; get_status returns the stored values.
C29_ProgressMonotone ==
  /\ [][(a_pc \in {"retry", "backoff", "returned", "except"})
          => progress' >= progress]_vars
  /\ [](Done => (progress = 100 /\ status \in {"completed", "failed"}))

\* ------------------------------- claims, orchestratorV2.py bookkeeping
\* the agents executed so far that returned success = TRUE
V2Succeeded == {a \in V2Executed : v2_outcome[a] = "ok"}

C30_WitnessSuccess ==
  /\ v2_pc = "returned"
  /\ skip_publishing
  /\ V2Failing = {}
  /\ v2_returned.success

====
